---- MODULE Spec2Model ----
(***************************************************************************)
(* A model of src/sync_and_report.py: one synchronisation run after the    *)
(* other of main(), against a remote image catalog and the files the runs  *)
(* leave on disk (the manifest, the reports, the archive, the working      *)
(* area).  main() is a sequential process (pc); the pool phase runs one    *)
(* download_and_convert_image unit per new image on the pool's threads.    *)
(* All runs use the same --username/--nsfw/--sort, hence one manifest path.*)
(***************************************************************************)
EXTENDS Integers, Sequences, FiniteSets, TLC

\* ------------------------------------------------------------ bounds
\* Image ids the remote service hands out: 1..MaxId.
MaxId == 2
\* Items per page of the listing (the model's stand-in for limit=200).
PageLen == 1
\* Page requests of one crawl that the model follows.
MaxRequests == 3
\* Threads of the pool (--threads).
Threads == 2

Ids == 1..MaxId

\* ------------------------------------------------------------ data
\* What an item of the API carries besides its id: "full" has a url and a
\* username, "nouser" has no 'username' key, "nourl" has an empty url.
Shapes == {"full", "nouser", "nourl"}

Entry(i, s) == [id |-> i, shape |-> s]

Entries == {Entry(i, s) : i \in Ids, s \in Shapes}

\* The remote catalog: for every id, the shape of its item, or "absent".
Remotes == [Ids -> Shapes \cup {"absent"}]

\* str(x) of an integer id: keys are <<type, digits>>.
Str(n) == <<"str", n>>

\* Variant: the item filed under img['id'] itself, an integer.
RawIdKey(e) == <<"int", e.id>>

\* The dictionary key main files an item under (line 169).
CatalogKey(e) == Str(e.id)

EmptyCatalog == [k \in {} |-> Entry(1, "full")]

\* The last item of list whose key is k (a dict comprehension keeps the last).
RECURSIVE LastWithKey(_, _)
LastWithKey(list, k) ==
    IF CatalogKey(list[Len(list)]) = k
    THEN list[Len(list)]
    ELSE LastWithKey(SubSeq(list, 1, Len(list) - 1), k)

\* {str(img['id']): img for img in current_image_list}
ImagesMap(list) ==
    [k \in {CatalogKey(list[j]) : j \in 1..Len(list)} |-> LastWithKey(list, k)]

\* ------------------------------------------------------------ the manifest file
NoFile == [kind |-> "absent", data |-> EmptyCatalog]

EmptyFile == [kind |-> "empty", data |-> EmptyCatalog]

TruncatedFile == [kind |-> "truncated", data |-> EmptyCatalog]

\* json.dump writes every key of a dict as a JSON string.
JsonKey(k) == <<"str", k[2]>>

JsonDump(data) ==
    [kind |-> "json",
     data |-> [k \in {JsonKey(x) : x \in DOMAIN data} |->
                 data[CHOOSE x \in DOMAIN data : JsonKey(x) = k]]]

\* Variant: a load that takes a file it cannot parse for a first run.
LoadManifestLenient(file) ==
    IF file.kind = "json"
    THEN [ok |-> TRUE, value |-> file.data]
    ELSE [ok |-> TRUE, value |-> EmptyCatalog]

\* load_manifest: the catalog of the file, {} without a file, and an error
\* (json.load raises) for a file that is no JSON document.
LoadManifest(file) ==
    IF file.kind = "absent" THEN [ok |-> TRUE, value |-> EmptyCatalog]
    ELSE IF file.kind = "json" THEN [ok |-> TRUE, value |-> file.data]
    ELSE [ok |-> FALSE, value |-> EmptyCatalog]

\* ------------------------------------------------------------ the diff
\* Variant: a diff that also counts a changed payload as new.
NewImageIdsByContent(cur, old) ==
    {k \in DOMAIN cur : k \notin DOMAIN old \/ cur[k] # old[k]}

\* current_image_ids - old_image_ids (line 173).
NewImageIds(cur, old) == DOMAIN cur \ DOMAIN old

\* Variant: every prior identifier reported as deleted.
DeletedImageIdsAll(cur, old) == DOMAIN old

\* old_image_ids - current_image_ids (line 174).
DeletedImageIds(cur, old) == DOMAIN old \ DOMAIN cur

\* ------------------------------------------------------------ the remote service
\* The listing in the order the service returns it.
RemoteSeq(r) ==
    SelectSeq([i \in 1..MaxId |-> Entry(i, r[i])], LAMBDA e : e.shape # "absent")

\* The items of the page at cursor c.
Page(r, c) ==
    LET s == RemoteSeq(r) IN
    IF c > Len(s) THEN << >>
    ELSE SubSeq(s, c, IF c + PageLen - 1 > Len(s) THEN Len(s) ELSE c + PageLen - 1)

\* The cursor None.
NoUrl == 0

\* API_BASE_URL: the first page.
API_BASE_URL == 1

\* The nextPage a response at cursor c may carry: the following page while
\* there is one; on the last page none, or a cursor to an empty page, or
\* (a service that never ends its listing) the first cursor again.
NextPages(r, c) ==
    IF c + PageLen <= Len(RemoteSeq(r))
    THEN {c + PageLen}
    ELSE {NoUrl, c + PageLen, API_BASE_URL}

\* ------------------------------------------------------------ file names
\* Variant: the file is named after the owner alone.
JpegFilenameByOwner(e) == <<IF e.shape = "nouser" THEN "unknown" ELSE "user", 0>>

\* f"{username}_{image_id}.jpeg" as the worker builds it (line 57, 72).
JpegFilename(e) == <<IF e.shape = "nouser" THEN "unknown" ELSE "user", e.id>>

\* ------------------------------------------------------------ state
VARIABLES
    pc,                   \* where main() is
    cause,                \* why the run stopped ("none" while it has not)
    remote,               \* the catalog the service serves during this run
    manifest_file,        \* the file at manifest_path
    reports,              \* what this run has written to reports_dir
    zip_file,             \* the archive this run has written at zip_filepath
    temp_dir,             \* new_images_temp as this run made it, and its files
    old_manifest,         \* main: the loaded manifest
    all_images,           \* fetch_all_image_metadata: the items so far
    next_url,             \* fetch_all_image_metadata: the cursor
    requests,             \* page requests sent by this crawl
    crawl_failed,         \* the crawl ended on a failed request
    current_images_map,   \* main
    new_image_ids,        \* main
    deleted_image_ids,    \* main
    futures,              \* per id: where its unit of the pool is
    progress_lock,        \* the id whose unit holds the lock, 0 when free
    download_progress,    \* {"count", "total"}
    message_count,        \* per unit: the count its failure message quotes (line 84)
    downloaded_filenames, \* main: the names handed to the archiver
    zip_failed,           \* create_zip_archive caught an exception
    prev,                 \* the run before this one: its catalog, if it completed
    start_file            \* the manifest file as this run found it

vars == <<pc, cause, remote, manifest_file, reports, zip_file, temp_dir,
          old_manifest, all_images, next_url, requests, crawl_failed,
          current_images_map, new_image_ids, deleted_image_ids, futures,
          progress_lock, download_progress, message_count,
          downloaded_filenames, zip_failed, prev, start_file>>

disk == <<manifest_file, reports, zip_file, temp_dir>>

crawl == <<all_images, next_url, requests, crawl_failed>>

diff == <<current_images_map, new_image_ids, deleted_image_ids>>

pool == <<futures, progress_lock, download_progress, message_count, downloaded_filenames>>

\* new_images and deleted_images_data of main (lines 176-177).
new_images == {current_images_map[k] : k \in new_image_ids}

deleted_images_data == {old_manifest[k] : k \in deleted_image_ids}

NoReports == [state |-> "none", added |-> {}, removed |-> {}]

NoZip == [state |-> "none", members |-> {}]

NoDir == [exists |-> FALSE, files |-> {}]

NoPrev == [done |-> FALSE, map |-> EmptyCatalog, failed |-> {}]

NoFutures == [i \in Ids |-> "none"]

NoMessages == [i \in Ids |-> 0]

\* The memory of a process that has not run yet.
Fresh ==
    /\ cause = "none"
    /\ old_manifest = EmptyCatalog
    /\ all_images = << >>
    /\ next_url = API_BASE_URL
    /\ requests = 0
    /\ crawl_failed = FALSE
    /\ current_images_map = EmptyCatalog
    /\ new_image_ids = {}
    /\ deleted_image_ids = {}
    /\ futures = NoFutures
    /\ progress_lock = 0
    /\ download_progress = [count |-> 0, total |-> 0]
    /\ message_count = NoMessages
    /\ downloaded_filenames = << >>
    /\ zip_failed = FALSE

Init ==
    /\ pc = "start"
    /\ remote \in Remotes
    /\ manifest_file = NoFile
    /\ reports = NoReports
    /\ zip_file = NoZip
    /\ temp_dir = NoDir
    /\ prev = NoPrev
    /\ start_file = NoFile
    /\ Fresh

\* ------------------------------------------------------------ main: load
\* old_manifest = load_manifest(manifest_path) (lines 156-157); the error of
\* json.load is caught nowhere and ends the run.
Load ==
    /\ pc = "start"
    /\ LET r == LoadManifest(manifest_file) IN
         IF r.ok
         THEN /\ old_manifest' = r.value
              /\ pc' = "crawl"
              /\ cause' = cause
         ELSE /\ old_manifest' = old_manifest
              /\ pc' = "aborted"
              /\ cause' = "manifest"
    /\ UNCHANGED <<remote, disk, crawl, diff, pool, zip_failed, prev, start_file>>

\* ------------------------------------------------------------ the crawl
\* One turn of the while loop with a good response (lines 25-43).
FetchPage ==
    /\ pc = "crawl"
    /\ next_url # NoUrl
    /\ requests < MaxRequests
    /\ requests' = requests + 1
    /\ LET items == Page(remote, next_url) IN
         IF items = << >>
         THEN /\ pc' = "diff"
              /\ UNCHANGED <<all_images, next_url>>
         ELSE /\ all_images' = all_images \o items
              /\ next_url' \in NextPages(remote, next_url)
              /\ pc' = IF next_url' = NoUrl THEN "diff" ELSE "crawl"
    /\ UNCHANGED <<cause, remote, disk, old_manifest, crawl_failed, diff, pool,
                   zip_failed, prev, start_file>>

\* A request that raises a RequestException: no connection, a timeout, a
\* status raise_for_status rejects, a body that is not JSON (lines 44-46).
FetchFails ==
    /\ pc = "crawl"
    /\ next_url # NoUrl
    /\ requests < MaxRequests
    /\ requests' = requests + 1
    /\ crawl_failed' = TRUE
    /\ pc' = "diff"
    /\ UNCHANGED <<cause, remote, disk, old_manifest, all_images, next_url, diff,
                   pool, zip_failed, prev, start_file>>

\* A body that is JSON but no object (data.get raises AttributeError), or a
\* body that is not JSON under a requests whose json() raises ValueError:
\* neither is a RequestException, and the exception leaves main.
FetchMalformed ==
    /\ pc = "crawl"
    /\ next_url # NoUrl
    /\ requests < MaxRequests
    /\ requests' = requests + 1
    /\ crawl_failed' = TRUE
    /\ pc' = "aborted"
    /\ cause' = "crawl"
    /\ UNCHANGED <<remote, disk, old_manifest, all_images, next_url, diff, pool,
                   zip_failed, prev, start_file>>

\* Variant: the manifest is saved as soon as the diff is known, before the
\* reports, the pool and the archive.
DiffSavingFirst ==
    /\ pc = "diff"
    /\ current_images_map' = ImagesMap(all_images)
    /\ new_image_ids' = NewImageIds(current_images_map', old_manifest)
    /\ deleted_image_ids' = DeletedImageIds(current_images_map', old_manifest)
    /\ all_images' = << >>
    /\ next_url' = API_BASE_URL
    /\ requests' = 0
    /\ pc' = "report"
    /\ manifest_file' = JsonDump(current_images_map')
    /\ UNCHANGED <<cause, remote, reports, zip_file, temp_dir, old_manifest,
                   crawl_failed, pool, zip_failed, prev, start_file>>

\* ------------------------------------------------------------ main: diff
\* fetch_all_image_metadata returns all_images (line 49, its locals end
\* there) and main builds the maps and the id sets of lines 169-179.
Diff ==
    /\ pc = "diff"
    /\ current_images_map' = ImagesMap(all_images)
    /\ new_image_ids' = NewImageIds(current_images_map', old_manifest)
    /\ deleted_image_ids' = DeletedImageIds(current_images_map', old_manifest)
    /\ all_images' = << >>
    /\ next_url' = API_BASE_URL
    /\ requests' = 0
    /\ pc' = "report"
    /\ UNCHANGED <<cause, remote, disk, old_manifest, crawl_failed, pool, zip_failed,
                   prev, start_file>>

\* ------------------------------------------------------------ main: reports
\* Variant: generate_reports is called in every run.
ReportAlways ==
    /\ pc = "report"
    /\ IF \E e \in deleted_images_data : e.shape = "nouser"
       THEN /\ reports' = [state |-> "partial", added |-> {}, removed |-> {}]
            /\ pc' = "aborted"
            /\ cause' = "report"
       ELSE /\ reports' = [state |-> "written", added |-> new_image_ids,
                           removed |-> deleted_image_ids]
            /\ pc' = "pool"
            /\ cause' = cause
    /\ UNCHANGED <<remote, manifest_file, zip_file, temp_dir, old_manifest, crawl,
                   diff, pool, zip_failed, prev, start_file>>

\* Lines 181-185 and generate_reports.  summary.md names the username of
\* every deleted image (line 133): an entry without that key raises
\* KeyError with summary.md half written and the id lists not yet opened.
Report ==
    /\ pc = "report"
    /\ IF new_image_ids = {} /\ deleted_image_ids = {}
       THEN /\ pc' = "pool"
            /\ UNCHANGED <<reports, cause>>
       ELSE IF \E e \in deleted_images_data : e.shape = "nouser"
       THEN /\ reports' = [state |-> "partial", added |-> {}, removed |-> {}]
            /\ pc' = "aborted"
            /\ cause' = "report"
       ELSE /\ reports' = [state |-> "written", added |-> new_image_ids,
                           removed |-> deleted_image_ids]
            /\ pc' = "pool"
            /\ cause' = cause
    /\ UNCHANGED <<remote, manifest_file, zip_file, temp_dir, old_manifest, crawl,
                   diff, pool, zip_failed, prev, start_file>>

\* ------------------------------------------------------------ the pool
\* The new image with id i.
UnitEntry(i) == CHOOSE e \in new_images : e.id = i

\* Units a pool thread is running.
Running == {i \in Ids : futures[i] \in {"saved", "failed", "locked_saved",
                                         "locked_failed", "format"}}

\* Units whose future gave main None, and units whose future gave a message.
Succeeded == {i \in Ids : futures[i] = "got_none"}

Failed == {i \in Ids : futures[i] = "got_msg"}

\* Lines 187-196: the working area, the counters, one future per new image;
\* without new images main goes on to save_manifest (lines 219-222).
PoolStart ==
    /\ pc = "pool"
    /\ IF new_images = {}
       THEN /\ pc' = "save"
            /\ UNCHANGED <<temp_dir, pool>>
       ELSE /\ pc' = "collect"
            /\ temp_dir' = [exists |-> TRUE, files |-> {}]
            /\ download_progress' = [count |-> 0, total |-> Cardinality(new_images)]
            /\ message_count' = NoMessages
            /\ futures' = [i \in Ids |->
                             IF \E e \in new_images : e.id = i THEN "queued" ELSE "none"]
            /\ downloaded_filenames' = << >>
            /\ UNCHANGED progress_lock
    /\ UNCHANGED <<cause, remote, manifest_file, reports, zip_file, old_manifest,
                   crawl, diff, zip_failed, prev, start_file>>

\* download_and_convert_image up to the counter (lines 55-74) on a free
\* thread: an item without url is skipped with a message; the image is
\* fetched, converted and saved under the worker's name.
WorkerSaves(i) ==
    /\ pc = "collect"
    /\ futures[i] = "queued"
    /\ Cardinality(Running) < Threads
    /\ IF UnitEntry(i).shape = "nourl"
       THEN /\ futures' = [futures EXCEPT ![i] = "ret_msg"]
            /\ UNCHANGED temp_dir
       ELSE /\ futures' = [futures EXCEPT ![i] = "saved"]
            /\ temp_dir' = [temp_dir EXCEPT !.files = @ \cup {JpegFilename(UnitEntry(i))}]
    /\ UNCHANGED <<pc, cause, remote, manifest_file, reports, zip_file, old_manifest,
                   crawl, diff, progress_lock, download_progress, message_count,
                   downloaded_filenames, zip_failed, prev, start_file>>

\* The same with an exception of the fetch, the decoder or the encoder
\* (line 81).
WorkerFails(i) ==
    /\ pc = "collect"
    /\ futures[i] = "queued"
    /\ Cardinality(Running) < Threads
    /\ UnitEntry(i).shape # "nourl"
    /\ futures' = [futures EXCEPT ![i] = "failed"]
    /\ UNCHANGED <<pc, cause, remote, disk, old_manifest, crawl, diff, progress_lock,
                   download_progress, message_count, downloaded_filenames, zip_failed, prev,
                   start_file>>

\* with progress_lock: download_progress["count"] += 1 (lines 76-77, 82-83).
WorkerLock(i) ==
    /\ pc = "collect"
    /\ futures[i] \in {"saved", "failed"}
    /\ progress_lock = 0
    /\ progress_lock' = i
    /\ download_progress' = [download_progress EXCEPT !.count = @ + 1]
    /\ futures' = [futures EXCEPT ![i] = IF @ = "saved" THEN "locked_saved"
                                                         ELSE "locked_failed"]
    /\ UNCHANGED <<pc, cause, remote, disk, old_manifest, crawl, diff,
                   message_count, downloaded_filenames, zip_failed, prev,
                   start_file>>

\* The end of the with block; a unit that saved returns None (line 80).
WorkerUnlock(i) ==
    /\ pc = "collect"
    /\ futures[i] \in {"locked_saved", "locked_failed"}
    /\ progress_lock = i
    /\ progress_lock' = 0
    /\ futures' = [futures EXCEPT ![i] = IF @ = "locked_saved" THEN "ret_none"
                                                                ELSE "format"]
    /\ UNCHANGED <<pc, cause, remote, disk, old_manifest, crawl, diff,
                   download_progress, message_count, downloaded_filenames, zip_failed, prev,
                   start_file>>

\* Line 84: the message of a failed unit, built after the with block: the
\* f-string reads download_progress['count'] and ['total'] as they are then.
WorkerFormat(i) ==
    /\ pc = "collect"
    /\ futures[i] = "format"
    /\ futures' = [futures EXCEPT ![i] = "ret_msg"]
    /\ message_count' = [message_count EXCEPT ![i] = download_progress.count]
    /\ UNCHANGED <<pc, cause, remote, disk, old_manifest, crawl, diff, progress_lock,
                   download_progress, downloaded_filenames, zip_failed, prev,
                   start_file>>

\* f"{img_data['username']}_{img_data['id']}.jpeg" as main builds it (line 206).
MainFilename(e) == <<"user", e.id>>

\* One turn of the as_completed loop (lines 199-208): a message is printed
\* and dropped, a None adds main's name of the image; img_data['username'] raises
\* KeyError without that key, which line 207 catches.  After the last
\* future the with block ends.
Collect(i) ==
    /\ pc = "collect"
    /\ futures[i] \in {"ret_none", "ret_msg"}
    /\ futures' = [futures EXCEPT ![i] = IF @ = "ret_none" THEN "got_none" ELSE "got_msg"]
    /\ downloaded_filenames' =
         IF futures[i] = "ret_none" /\ UnitEntry(i).shape # "nouser"
         THEN Append(downloaded_filenames, MainFilename(UnitEntry(i)))
         ELSE downloaded_filenames
    /\ pc' = IF \A j \in Ids : futures'[j] \in {"none", "got_none", "got_msg"}
             THEN "zip" ELSE "collect"
    /\ message_count' = [message_count EXCEPT ![i] = 0]
    /\ UNCHANGED <<cause, remote, disk, old_manifest, crawl, diff, progress_lock,
                   download_progress, zip_failed, prev, start_file>>

\* ------------------------------------------------------------ the archive
FilesToZip == {downloaded_filenames[j] : j \in 1..Len(downloaded_filenames)}

\* Variant: the archive takes every file of the directory.
CreateZipArchiveWholeDir(dir_files, files_to_zip) ==
    [state |-> "written", members |-> dir_files]

\* create_zip_archive (lines 86-97): every listed name whose file exists in
\* source_dir (line 93) is written under that name (arcname, line 94).
CreateZipArchive(dir_files, files_to_zip) ==
    [state |-> "written",
     members |-> {files_to_zip[j] : j \in {k \in 1..Len(files_to_zip) :
                                              files_to_zip[k] \in dir_files}}]

\* Lines 210-213: the archive is made when the list is not empty.
Zip ==
    /\ pc = "zip"
    /\ pc' = "cleanup"
    /\ zip_file' = IF downloaded_filenames = << >> THEN zip_file
                   ELSE CreateZipArchive(temp_dir.files, downloaded_filenames)
    /\ UNCHANGED <<cause, remote, manifest_file, reports, temp_dir, old_manifest,
                   crawl, diff, pool, zip_failed, prev, start_file>>

\* The archive cannot be written: line 98 catches the exception and prints.
ZipFails ==
    /\ pc = "zip"
    /\ downloaded_filenames # << >>
    /\ pc' = "cleanup"
    /\ zip_failed' = TRUE
    /\ zip_file' = [state |-> "broken", members |-> {}]
    /\ UNCHANGED <<cause, remote, manifest_file, reports, temp_dir, old_manifest,
                   crawl, diff, pool, prev, start_file>>

\* Lines 215-218.
Cleanup ==
    /\ pc = "cleanup"
    /\ pc' = "save"
    /\ temp_dir' = NoDir
    /\ UNCHANGED <<cause, remote, manifest_file, reports, zip_file, old_manifest,
                   crawl, diff, pool, zip_failed, prev, start_file>>

\* ------------------------------------------------------------ save_manifest
\* open(manifest_path, 'w') (line 110) empties the file.
SaveOpen ==
    /\ pc = "save"
    /\ pc' = "dump"
    /\ manifest_file' = EmptyFile
    /\ UNCHANGED <<cause, remote, reports, zip_file, temp_dir, old_manifest, crawl,
                   diff, pool, zip_failed, prev, start_file>>

\* Variant: the manifest keeps the entries of the prior manifest next to
\* those of the crawl.
SaveDumpMerged ==
    /\ pc = "dump"
    /\ pc' = "done"
    /\ manifest_file' = JsonDump([k \in DOMAIN old_manifest \cup DOMAIN current_images_map |->
                                  IF k \in DOMAIN current_images_map
                                  THEN current_images_map[k] ELSE old_manifest[k]])
    /\ UNCHANGED <<cause, remote, reports, zip_file, temp_dir, old_manifest, crawl,
                   diff, pool, zip_failed, prev, start_file>>

\* Variant: only the entries whose image was handed to the archiver, and
\* those retained from the prior manifest, are recorded.
SaveDumpDownloaded ==
    /\ pc = "dump"
    /\ pc' = "done"
    /\ manifest_file' = JsonDump([k \in {q \in DOMAIN current_images_map :
                                           q \notin new_image_ids \/ q[2] \in Succeeded} |->
                                  current_images_map[k]])
    /\ UNCHANGED <<cause, remote, reports, zip_file, temp_dir, old_manifest, crawl,
                   diff, pool, zip_failed, prev, start_file>>

\* json.dump and the close of the file (line 111).
SaveDump ==
    /\ pc = "dump"
    /\ pc' = "done"
    /\ manifest_file' = JsonDump(current_images_map)
    /\ UNCHANGED <<cause, remote, reports, zip_file, temp_dir, old_manifest, crawl,
                   diff, pool, zip_failed, prev, start_file>>

\* ------------------------------------------------------------ the process
Busy == pc \notin {"done", "aborted", "crashed"}

\* The process is killed: its memory is gone, the disk stays as it is; a
\* kill inside json.dump leaves what was written so far.
Crash ==
    /\ Busy
    /\ pc' = "crashed"
    /\ manifest_file' \in IF pc = "dump" THEN {manifest_file, TruncatedFile}
                          ELSE {manifest_file}
    /\ cause' = "killed"
    /\ old_manifest' = EmptyCatalog
    /\ all_images' = << >>
    /\ next_url' = API_BASE_URL
    /\ requests' = 0
    /\ crawl_failed' = FALSE
    /\ current_images_map' = EmptyCatalog
    /\ new_image_ids' = {}
    /\ deleted_image_ids' = {}
    /\ futures' = NoFutures
    /\ progress_lock' = 0
    /\ download_progress' = [count |-> 0, total |-> 0]
    /\ message_count' = NoMessages
    /\ downloaded_filenames' = << >>
    /\ zip_failed' = FALSE
    /\ prev' = NoPrev
    /\ UNCHANGED <<remote, reports, zip_file, temp_dir, start_file>>

\* The next invocation of the script; the remote catalog may have changed.
\* reports, zip_file and temp_dir start over: they record what the new run
\* writes, and no run reads what an earlier one left at these places.
NewProcess ==
    /\ ~Busy
    /\ pc' = "start"
    /\ remote' \in Remotes
    /\ start_file' = manifest_file
    /\ reports' = NoReports
    /\ zip_file' = NoZip
    /\ temp_dir' = NoDir
    /\ cause' = "none"
    /\ old_manifest' = EmptyCatalog
    /\ all_images' = << >>
    /\ next_url' = API_BASE_URL
    /\ requests' = 0
    /\ crawl_failed' = FALSE
    /\ current_images_map' = EmptyCatalog
    /\ new_image_ids' = {}
    /\ deleted_image_ids' = {}
    /\ futures' = NoFutures
    /\ progress_lock' = 0
    /\ download_progress' = [count |-> 0, total |-> 0]
    /\ message_count' = NoMessages
    /\ downloaded_filenames' = << >>
    /\ zip_failed' = FALSE
    /\ UNCHANGED manifest_file

\* prev keeps the catalog of the run before when that run completed.
StartRun ==
    /\ NewProcess
    /\ prev' = IF pc = "done"
               THEN [done |-> TRUE, map |-> current_images_map, failed |-> {}]
               ELSE NoPrev

\* The same, and while one completed run follows another prev.failed keeps
\* the ids whose unit failed in one of these runs; the service goes on
\* listing these entries as they are, the rest of its catalog may change.
StartRunRemembering ==
    /\ NewProcess
    /\ pc = "done" => \A i \in prev.failed \cup Failed : remote'[i] = remote[i]
    /\ prev' = IF pc = "done"
               THEN [done |-> TRUE, map |-> current_images_map,
                     failed |-> prev.failed \cup Failed]
               ELSE NoPrev

Next ==
    \/ Load
    \/ FetchPage
    \/ FetchFails
    \/ FetchMalformed
    \/ Diff
    \/ Report
    \/ PoolStart
    \/ \E i \in Ids : WorkerSaves(i)
    \/ \E i \in Ids : WorkerFails(i)
    \/ \E i \in Ids : WorkerLock(i)
    \/ \E i \in Ids : WorkerUnlock(i)
    \/ \E i \in Ids : WorkerFormat(i)
    \/ \E i \in Ids : Collect(i)
    \/ Zip
    \/ ZipFails
    \/ Cleanup
    \/ SaveOpen
    \/ SaveDump
    \/ Crash
    \/ StartRun

Spec == Init /\ [][Next]_vars

\* ------------------------------------------------------------ runs with memory
\* The runs as in Spec, with the failed units of earlier runs remembered
\* and their entries still in the remote catalog.
NextRetry ==
    \/ Load
    \/ FetchPage
    \/ FetchFails
    \/ FetchMalformed
    \/ Diff
    \/ Report
    \/ PoolStart
    \/ \E i \in Ids : WorkerSaves(i)
    \/ \E i \in Ids : WorkerFails(i)
    \/ \E i \in Ids : WorkerLock(i)
    \/ \E i \in Ids : WorkerUnlock(i)
    \/ \E i \in Ids : WorkerFormat(i)
    \/ \E i \in Ids : Collect(i)
    \/ Zip
    \/ ZipFails
    \/ Cleanup
    \/ SaveOpen
    \/ SaveDump
    \/ Crash
    \/ StartRunRemembering

SpecRetry == Init /\ [][NextRetry]_vars

\* ------------------------------------------------------------ the archiver alone
\* The file names a working area can hold.
JpegNames == {"user", "unknown"} \X Ids

\* main at line 210 with any list of names and any content of the working
\* area, a listed file that is not there included.
InitZip ==
    /\ pc = "zip"
    /\ remote = [i \in Ids |-> "absent"]
    /\ manifest_file = NoFile
    /\ reports = NoReports
    /\ zip_file = NoZip
    /\ temp_dir \in {[exists |-> TRUE, files |-> f] : f \in SUBSET JpegNames}
    /\ prev = NoPrev
    /\ start_file = NoFile
    /\ cause = "none"
    /\ old_manifest = EmptyCatalog
    /\ all_images = << >>
    /\ next_url = API_BASE_URL
    /\ requests = 0
    /\ crawl_failed = FALSE
    /\ current_images_map = EmptyCatalog
    /\ new_image_ids = {}
    /\ deleted_image_ids = {}
    /\ futures = NoFutures
    /\ progress_lock = 0
    /\ download_progress = [count |-> 0, total |-> 0]
    /\ message_count = NoMessages
    /\ downloaded_filenames \in UNION {[1..n -> JpegNames] : n \in 0..MaxId}
    /\ zip_failed = FALSE

NextZip ==
    \/ Zip
    \/ ZipFails
    \/ Cleanup

SpecZip == InitZip /\ [][NextZip]_vars

\* ------------------------------------------------------------ properties
\* main has computed the diff of this run.
Diffed ==
    \/ pc \in {"report", "pool", "collect", "zip", "cleanup", "save", "dump", "done"}
    \/ pc = "aborted" /\ cause = "report"

\* C1: added is exactly the entries whose identifier is a key of the current
\* catalog and not of the prior one, removed exactly those whose identifier
\* is a key of the prior catalog and not of the current one; an identifier
\* of both is in neither, whatever the two payloads are.
C1_DiffByIdentifier ==
    Diffed =>
      /\ new_image_ids \subseteq DOMAIN current_images_map
      /\ deleted_image_ids \subseteq DOMAIN old_manifest
      /\ \A k \in DOMAIN current_images_map \cup DOMAIN old_manifest :
           /\ k \in new_image_ids <=>
                (k \in DOMAIN current_images_map /\ k \notin DOMAIN old_manifest)
           /\ k \in deleted_image_ids <=>
                (k \in DOMAIN old_manifest /\ k \notin DOMAIN current_images_map)
      /\ new_images = {current_images_map[k] :
                         k \in {x \in DOMAIN current_images_map :
                                  x \notin DOMAIN old_manifest}}
      /\ deleted_images_data = {old_manifest[k] :
                                  k \in {x \in DOMAIN old_manifest :
                                           x \notin DOMAIN current_images_map}}

\* An identifier of both catalogs with two payloads, beside an added one.
C1_Witness ==
    /\ Diffed
    /\ new_image_ids # {}
    /\ \E k \in DOMAIN current_images_map \cap DOMAIN old_manifest :
         /\ current_images_map[k] # old_manifest[k]
         /\ k \notin new_image_ids \cup deleted_image_ids

\* C2: the identifiers added and the identifiers removed are disjoint, and
\* the diff of a catalog with itself has neither.
C2_DiffDisjoint ==
    Diffed =>
      /\ new_image_ids \cap deleted_image_ids = {}
      /\ current_images_map = old_manifest =>
           (new_image_ids = {} /\ deleted_image_ids = {})

\* Both sets non-empty over catalogs that share an identifier.
C2_Witness ==
    /\ Diffed
    /\ new_image_ids # {}
    /\ deleted_image_ids # {}

PoolOver == pc \in {"zip", "cleanup", "save", "dump", "done"}

\* C3: when exactly one of the N units of the pool fails, the other N-1
\* complete, the names of their files are exactly the list handed to the
\* archiver, and the archive, once written, holds exactly those files.
C3_PartialFailureIsolation ==
    (PoolOver /\ Cardinality(Failed) = 1) =>
      /\ Cardinality(Succeeded) = Cardinality(new_images) - 1
      /\ Len(downloaded_filenames) = Cardinality(new_images) - 1
      /\ FilesToZip = {JpegFilename(UnitEntry(i)) : i \in Succeeded}
      /\ (pc # "zip" /\ ~zip_failed /\ Succeeded # {}) =>
           zip_file = [state |-> "written",
                       members |-> {JpegFilename(UnitEntry(i)) : i \in Succeeded}]

\* C4: the crawl caps its page requests: once MaxRequests requests are
\* sent it has returned, whatever cursors the service keeps handing out.
\* (A listing that ends takes at most MaxId \div PageLen + 1 requests, the
\* last one for an empty page; only a service that hands the first cursor
\* out again gets the loop further.)
C4_CrawlReturnsWithinCap ==
    requests >= MaxRequests => pc # "crawl"

\* C5: a failing page request (no connection, a rejected status, a
\* malformed body) ends the crawl with exactly the items of the pages
\* before it, and the run goes on to the diff.
C5_RequestFailureEndsCrawl ==
    [][(pc = "crawl" /\ crawl_failed') =>
         (pc' = "diff" /\ all_images' = all_images)]_vars

\* C6: load_manifest returns the empty catalog when there is no file, and
\* fails on a file that cannot be parsed: such a run stops at the load and
\* writes no report, no archive, no working area and no manifest.
C6_CorruptManifestStopsRun ==
    /\ (start_file.kind = "absent" /\ pc \notin {"start", "crashed"}) =>
         old_manifest = EmptyCatalog
    /\ start_file.kind \notin {"absent", "json"} =>
         /\ pc \in {"start", "aborted", "crashed"}
         /\ pc = "aborted" => cause = "manifest"
         /\ manifest_file = start_file
         /\ reports = NoReports
         /\ zip_file = NoZip
         /\ temp_dir = NoDir

\* A run stopped by a manifest that a killed save left truncated.
C6_Witness ==
    /\ pc = "aborted"
    /\ cause = "manifest"
    /\ start_file = TruncatedFile
    /\ manifest_file = TruncatedFile

\* C7: wherever the process is killed, the manifest file holds the complete
\* manifest the run found or the complete new catalog.
C7_SaveIsAtomic ==
    [][pc' = "crashed" =>
         manifest_file' \in {start_file, JsonDump(current_images_map)}]_vars

\* C8: the catalog main builds, saved by save_manifest and loaded by
\* load_manifest in the next run, has the same identifiers and the same
\* payload for every identifier.
C8_SaveLoadRoundTrip ==
    (prev.done /\ pc \notin {"start", "crashed"}) => old_manifest = prev.map

\* The next run has loaded a saved catalog of MaxId entries.
C8_Witness ==
    /\ prev.done
    /\ pc = "crawl"
    /\ Cardinality(DOMAIN prev.map) = MaxId
    /\ old_manifest = prev.map
    /\ \E k \in DOMAIN old_manifest : old_manifest[k].shape # "full"

\* C9: a run after a completed run, with the same catalog crawled, computes
\* nothing added and nothing removed and saves the manifest the first run
\* saved.
C9_Idempotent ==
    (pc = "done" /\ prev.done /\ current_images_map = prev.map) =>
      /\ new_image_ids = {}
      /\ deleted_image_ids = {}
      /\ manifest_file = start_file

\* The second of two completed runs over the same non-empty catalog.
C9_Witness ==
    /\ pc = "done"
    /\ prev.done
    /\ current_images_map = prev.map
    /\ prev.map # EmptyCatalog
    /\ manifest_file = start_file
    /\ start_file.kind = "json"

\* C10: when create_zip_archive cannot write the archive, the run stops and
\* the manifest file stays as the run found it.
C10_ZipFailureAborts ==
    zip_failed => (pc # "done" /\ manifest_file = start_file)

\* C11: a run reads the manifest once, before the crawl, and writes it once,
\* in save_manifest, after the crawl, the diff, the reports, the pool, the
\* archive and the cleanup, and after it writes nothing else; at every
\* earlier point of the run, after an uncaught exception and after a kill
\* before save_manifest the manifest file is the one the run found.
C11_ManifestReadFirstWrittenLast ==
    /\ [](pc \in {"start", "crawl", "diff", "report", "pool", "collect", "zip",
                  "cleanup", "save", "aborted"} => manifest_file = start_file)
    /\ [][(pc' = "crashed" /\ pc # "dump") => manifest_file' = start_file]_vars
    /\ [][manifest_file' # manifest_file => pc \in {"save", "dump"}]_vars
    /\ [][(old_manifest' # old_manifest /\ pc' \notin {"start", "crashed"})
             => (pc = "start" /\ pc' = "crawl")]_vars
    /\ [][(pc \in {"save", "dump"} /\ pc' # "start")
             => UNCHANGED <<reports, zip_file, temp_dir>>]_vars

\* A run over a changed catalog that has written its reports and its
\* archive, has removed the working area and is about to save, with the
\* manifest of the run before still on disk.
C11_Witness ==
    /\ pc = "save"
    /\ start_file.kind = "json"
    /\ manifest_file = start_file
    /\ old_manifest # EmptyCatalog
    /\ new_image_ids # {}
    /\ deleted_image_ids # {}
    /\ reports.state = "written"
    /\ zip_file.state = "written"

\* The keys of the manifest file, as identifiers.
ManifestIds == {k[2] : k \in DOMAIN manifest_file.data}

\* C12: after a completed run the identifiers of the manifest file are those
\* of the crawled catalog: every added one, every retained one, no removed
\* one.
C12_ManifestIsCurrentCatalog ==
    pc = "done" =>
      /\ manifest_file.kind = "json"
      /\ ManifestIds = {current_images_map[k].id : k \in DOMAIN current_images_map}
      /\ \A k \in new_image_ids : k[2] \in ManifestIds
      /\ \A k \in DOMAIN old_manifest \cap DOMAIN current_images_map : k[2] \in ManifestIds
      /\ \A k \in deleted_image_ids : k[2] \notin ManifestIds

\* A completed run that added one entry, retained none and removed one.
C12_Witness ==
    /\ pc = "done"
    /\ new_image_ids # {}
    /\ deleted_image_ids # {}
    /\ ManifestIds = {k[2] : k \in new_image_ids}
    /\ zip_file.state = "written"

\* Units that got past the fetch and so count themselves (lines 76-77, 82-83).
Counted == {i \in Ids : futures[i] \in {"got_none", "got_msg"}
                         /\ UnitEntry(i).shape # "nourl"}

\* C13: a pool thread touches download_progress only while it holds
\* progress_lock, and downloaded_filenames is changed by main alone, so after
\* the pool no increment is lost and the list holds one filename for every
\* unit that returned success.
C13_CounterLockedNothingLost ==
    /\ [][\A i \in Ids :
            (download_progress' # download_progress /\ pc = "collect"
               /\ pc' = "collect" /\ futures'[i] # futures[i])
              => progress_lock' = i]_vars
    /\ [][\A i \in Ids :
            (futures[i] = "format" /\ futures'[i] = "ret_msg") => progress_lock = i]_vars
    /\ [][downloaded_filenames' # downloaded_filenames
            => (Running' = Running \/ pc' \in {"start", "crashed"})]_vars
    /\ [](PoolOver => download_progress.count = Cardinality(Counted))
    /\ [](PoolOver => Len(downloaded_filenames) = Cardinality(Succeeded))

\* C14: the archive's members are exactly the listed names whose file is in
\* the working area, each under its own name; a listed file that is not
\* there is left out and the archive is still written; with an empty list
\* no archive is made.
C14_ArchiveMembers ==
    (pc = "cleanup" /\ ~zip_failed) =>
      IF downloaded_filenames = << >>
      THEN zip_file = NoZip
      ELSE /\ zip_file.state = "written"
           /\ \A n \in JpegNames :
                n \in zip_file.members <=> (n \in FilesToZip /\ n \in temp_dir.files)

\* An archive written from a list with one file that is there and one that
\* is not, next to a file that is not listed.
C14_Witness ==
    /\ pc = "cleanup"
    /\ zip_file.state = "written"
    /\ zip_file.members # {}
    /\ FilesToZip \ temp_dir.files # {}
    /\ temp_dir.files \ FilesToZip # {}

\* Units whose image file has been saved (line 74).
Saved == {i \in Ids : futures[i] \in {"saved", "locked_saved", "ret_none", "got_none"}}

\* C15: two different new images never have the same file name, so every
\* unit that saves writes a file of its own in the working area.
C15_DistinctFilenames ==
    pc \in {"collect", "zip", "cleanup"} =>
      /\ \A e1, e2 \in new_images : e1 # e2 => JpegFilename(e1) # JpegFilename(e2)
      /\ \A i, j \in Saved : i # j => JpegFilename(UnitEntry(i)) # JpegFilename(UnitEntry(j))
      /\ Cardinality(temp_dir.files) = Cardinality(Saved)

\* Two pool threads have each just saved a file, one of them for an entry
\* without a username.
C15_Witness ==
    /\ pc = "collect"
    /\ Cardinality({i \in Ids : futures[i] = "saved"}) = 2
    /\ \E i \in Ids : UnitEntry(i).shape = "nouser"
    /\ Cardinality(temp_dir.files) = 2

\* C16: for every new image, also one without a username, the name main
\* appends for a unit that returned success is the name the unit saved its
\* file under, so every saved file of a successful unit is a member of the
\* archive.
C16_MainNameIsWorkerName ==
    /\ PoolOver => FilesToZip = {JpegFilename(UnitEntry(i)) : i \in Succeeded}
    /\ (pc = "cleanup" /\ ~zip_failed) =>
         \A i \in Succeeded : JpegFilename(UnitEntry(i)) \in zip_file.members

C18_CutShortCrawlRemoves ==
    (crawl_failed /\ Diffed) =>
      /\ deleted_image_ids = DOMAIN old_manifest \ DOMAIN current_images_map
      /\ (pc # "report" /\ deleted_image_ids # {}) =>
           (reports.state = "written" /\ reports.removed = deleted_image_ids)
      /\ pc = "done" => \A k \in deleted_image_ids : k[2] \notin ManifestIds
      /\ (pc = "done" /\ current_images_map = EmptyCatalog) =>
           manifest_file = JsonDump(EmptyCatalog)

\* main is past the reports (lines 181-185).
Reported ==
    \/ pc \in {"pool", "collect", "zip", "cleanup", "save", "dump", "done"}
    \/ pc = "aborted" /\ cause = "report"

====
